---- MODULE Spec2Model ----
(***************************************************************************)
(* Model of src/main.py: a five-node sequential graph (parse_intent,       *)
(* discover_videos, fetch_video_stats, fetch_channels, evaluate) threaded  *)
(* over one AgentState record, followed by the __main__ print loop.        *)
(* The language model and the YouTube client are the environment: every    *)
(* call receives one reply drawn from a bounded set, or raises.            *)
(***************************************************************************)
EXTENDS Integers, Sequences, FiniteSets, TLC

\* ------------------------------------------------------------------ bounds
MaxItems == 3      \* longest search reply (number of items)
MaxVideos == 2     \* longest videos().list reply

\* ------------------------------------------------------- program constants
WindowDays == 30          \* timedelta(days=30)
MaxSearchResults == 15    \* maxResults=15
RegionCode == "IN"
Query == "Find Indian fashion creators under 500k subs whose shorts are growing fast"

\* ------------------------------------------------------------------ helpers
Last(s) == s[Len(s)]
Range(s) == {s[i] : i \in 1..Len(s)}
Seqs(S, n) == UNION {[1..k -> S] : k \in 0..n}
Count(x, s) == Cardinality({i \in 1..Len(s) : s[i] = x})

\* list(set): every duplicate-free enumeration of S is a possible iteration
\* order (string hashing is randomised per process).
ListsOfSet(S) == {s \in [1..Cardinality(S) -> S] : Range(s) = S}

\* ",".join(ids)
RECURSIVE Join(_)
Join(ids) ==
    IF Len(ids) = 0 THEN <<>>
    ELSE IF Len(ids) = 1 THEN <<ids[1]>>
    ELSE <<ids[1], ",">> \o Join(Tail(ids))

\* ---------------------------------------------------------------- the graph
Nodes == <<"intent", "discover", "videos", "channels", "evaluate">>
NodeSet == Range(Nodes)

\* A wrong wiring: the "videos" node is connected straight to "evaluate".
NextNodeSkipping(node) ==
    CASE node = "intent" -> "discover"
      [] node = "discover" -> "videos"
      [] node = "videos" -> "evaluate"
      [] node = "channels" -> "evaluate"
      [] node = "evaluate" -> "END"

\* graph.add_edge(...): the successor of each node.
NextNode(node) ==
    CASE node = "intent" -> "discover"
      [] node = "discover" -> "videos"
      [] node = "videos" -> "channels"
      [] node = "channels" -> "evaluate"
      [] node = "evaluate" -> "END"

\* An exception swallowed: the graph goes on with the next node.
AfterErrorContinue(node) == NextNode(node)

\* No try/except anywhere: an exception raised in a node leaves agent.invoke
\* and ends the process before the print loop.
AfterError(node) == "aborted"

\* ------------------------------------------------------- language-model text
\* A completion is a sequence of tokens, each a tuple: <<"{">>, <<key, value>>,
\* <<"}">> for an object; <<"[">>, <<"{}", record>>, <<"]">> for a list;
\* <<"fence">> stands for a markdown fence line.
IntentFields == <<"niche", "country", "format", "max_subscribers", "metric_priority">>
Formats == {"shorts", "long", "short-form", "long-form"}

IntentValue(k, fmt) ==
    CASE k = "niche" -> "fashion"
      [] k = "country" -> "IN"
      [] k = "format" -> fmt
      [] k = "max_subscribers" -> 500000
      [] k = "metric_priority" -> "growth"

RECURSIVE Pairs(_, _, _)
Pairs(keys, present, fmt) ==
    IF keys = <<>> THEN <<>>
    ELSE (IF Head(keys) \in present
            THEN << <<Head(keys), IntentValue(Head(keys), fmt)>> >>
            ELSE <<>>) \o Pairs(Tail(keys), present, fmt)

ObjectText(present, fmt) == << <<"{">> >> \o Pairs(IntentFields, present, fmt) \o << <<"}">> >>
ListText(records) ==
    << <<"[">> >> \o [i \in 1..Len(records) |-> <<"{}", records[i]>>] \o << <<"]">> >>
Fenced(text) == << <<"fence">> >> \o text \o << <<"fence">> >>
Truncated(text) == SubSeq(text, 1, Len(text) - 1)

AllFields == Range(IntentFields)
\* The complete object with each format, and the objects that lack one field.
IntentTexts ==
    {ObjectText(AllFields, f) : f \in Formats}
    \cup {ObjectText(AllFields \ {k}, "shorts") : k \in AllFields}
    \cup {Fenced(ObjectText(AllFields, "shorts")), Truncated(ObjectText(AllFields, "long"))}

\* json.loads(response.content)
JsonLoads(text) ==
    IF Len(text) >= 2 /\ text[1] = <<"{">> /\ Last(text) = <<"}">>
    THEN LET inner == SubSeq(text, 2, Len(text) - 1)
             keys == {inner[i][1] : i \in 1..Len(inner)}
             at(k) == CHOOSE i \in 1..Len(inner) :
                         /\ inner[i][1] = k
                         /\ \A j \in 1..Len(inner) : inner[j][1] = k => j <= i
         IN [ok |-> TRUE, value |-> [k \in keys |-> inner[at(k)][2]]]
    ELSE IF Len(text) >= 2 /\ text[1] = <<"[">> /\ Last(text) = <<"]">>
    THEN [ok |-> TRUE, value |-> [i \in 1..(Len(text) - 2) |-> text[i + 1][2]]]
    ELSE [ok |-> FALSE, value |-> <<>>]

\* ------------------------------------------------------------------- state
VARIABLES
    pc,         \* the node about to run, or "END", "exit", "aborted"
    state,      \* AgentState; a field not yet written is <<>>, else <<value>>
    started,    \* history: nodes entered, in order
    completed,  \* history: nodes that returned, in order
    failed,     \* <<>> or <<where>>: the node (or "__main__") that raised
    calls,      \* number of calls made to each external operation
    sent,       \* last request sent to each YouTube operation (<<>> if none)
    mock,       \* the reply each call site received (<<>> if not yet called)
    utcnow,     \* <<>> or <<the clock value read by discover_videos>>
    printed,    \* lines written to standard output
    run,        \* number of the current invocation
    prev        \* <<>> or <<the AgentState the previous invocation ended with>>

vars == <<pc, state, started, completed, failed, calls, sent, mock, utcnow, printed, run, prev>>

\* A write that also drops what the other stages wrote.
SetFieldDropping(s, f, v) ==
    [k \in DOMAIN s |-> IF k = f THEN <<v>> ELSE IF k = "query" THEN s[k] ELSE <<>>]

\* state["<f>"] = v
SetField(s, f, v) == [s EXCEPT ![f] = <<v>>]

\* agent.invoke({"query": ...})
InitialState ==
    [query |-> Query, intent |-> <<>>, video_ids |-> <<>>, videos |-> <<>>,
     channels |-> <<>>, final_results |-> <<>>]

Init ==
    /\ pc = "intent"
    /\ state = InitialState
    /\ started = <<>>
    /\ completed = <<>>
    /\ failed = <<>>
    /\ calls = [llm |-> 0, search |-> 0, videos |-> 0, channels |-> 0]
    /\ sent = [search |-> <<>>, videos |-> <<>>, channels |-> <<>>]
    /\ mock = [intent |-> <<>>, search |-> <<>>, videos |-> <<>>,
               channels |-> <<>>, evaluate |-> <<>>]
    /\ utcnow = <<>>
    /\ printed = <<>>
    /\ run = 1
    /\ prev = <<>>

\* The replies a call site can receive: anything the service may answer on a
\* first invocation, the recorded reply when the graph is invoked again
\* against the same (mocked) collaborators.
Replies(site, all) == IF mock[site] = <<>> THEN all ELSE {mock[site][1]}

\* A node raised.
Raise(node) ==
    /\ pc' = AfterError(node)
    /\ failed' = <<node>>
    /\ started' = Append(started, node)
    /\ UNCHANGED <<state, completed, printed, run, prev>>

\* A node returned the state with field f set to v.
Return(node, f, v) ==
    /\ pc' = NextNode(node)
    /\ state' = SetField(state, f, v)
    /\ started' = Append(started, node)
    /\ completed' = Append(completed, node)
    /\ UNCHANGED <<failed, printed, run, prev>>

\* NODE 1
parse_intent(text) ==
    /\ pc = "intent"
    /\ calls' = [calls EXCEPT !.llm = @ + 1]
    /\ mock' = [mock EXCEPT !.intent = <<text>>]
    /\ UNCHANGED <<sent, utcnow>>
    /\ LET parsed == JsonLoads(text)
       IN IF parsed.ok
            THEN Return("intent", "intent", parsed.value)
            ELSE Raise("intent")

\* -------------------------------------------------------------- the clock
\* datetime as the day number, the second of the day and the microsecond.
DaySeconds == 24 * 60 * 60
Clocks ==
    {[days |-> 20000, seconds |-> 0, microsecond |-> 0],
     [days |-> 20001, seconds |-> 86399, microsecond |-> 123456]}

\* now - timedelta(days=n)
MinusDays(now, n) == [now EXCEPT !.days = @ - n]

\* datetime.isoformat("T"): the fraction is written only when it is not zero.
IsoFormat(d) ==
    <<d.days, "T", d.seconds>> \o (IF d.microsecond = 0 THEN <<>> ELSE <<".", d.microsecond>>)

\* A window of 31 days.
PublishedAfterOffByOne(now) == Append(IsoFormat(MinusDays(now, WindowDays + 1)), "Z")

\* (datetime.utcnow() - timedelta(days=30)).isoformat("T") + "Z"
PublishedAfter(now) == Append(IsoFormat(MinusDays(now, WindowDays)), "Z")

\* ------------------------------------------------------ the YouTube replies
VideoIds == {"v1", "v2"}
ChannelIds == {"c1", "c2"}
Subscribers(c) == IF c = "c1" THEN 450000 ELSE 600000

SearchItems == {[id |-> [videoId |-> v]] : v \in VideoIds}
VideoItems == {[snippet |-> [channelId |-> c]] : c \in ChannelIds}
Channel(c) == [id |-> c, statistics |-> [subscriberCount |-> Subscribers(c)]]

\* .execute() raises (ok = FALSE) or returns a body with "items".
Failure == [ok |-> FALSE, items |-> <<>>]
SearchReplies == {Failure} \cup {[ok |-> TRUE, items |-> s] : s \in Seqs(SearchItems, MaxItems)}
VideoReplies == {Failure} \cup {[ok |-> TRUE, items |-> s] : s \in Seqs(VideoItems, MaxVideos)}
ChannelReplies ==
    {Failure} \cup {[ok |-> TRUE, items |-> s] :
                    s \in {<<>>, <<Channel("c1")>>, <<Channel("c1"), Channel("c2")>>}}

\* ------------------------------------------------------ the evaluator's text
ResultKeys == <<"channel_name", "subscribers", "avg_views", "reasoning">>
Complete == [channel_name |-> "c1", subscribers |-> 450000, avg_views |-> 90000, reasoning |-> "growth"]
Partial == [channel_name |-> "c2", subscribers |-> 600000]
EvalTexts ==
    {ListText(rs) : rs \in {<<>>, <<Complete>>, <<Complete, Partial>>, <<Complete, Complete>>}}
    \cup {Fenced(ListText(<<Complete>>)), Truncated(ListText(<<Complete>>))}

\* NODE 2
\* "short" if state["intent"]["format"] == "short" else "any"
VideoDurationWrongLiteral(intent) == IF intent["format"] = "short" THEN "short" ELSE "any"

\* "short" if state["intent"]["format"] == "shorts" else "any"
VideoDuration(intent) == IF intent["format"] = "shorts" THEN "short" ELSE "any"

\* list(items' ids) without the set.
VideoIdListsNoSet(items) == {[i \in 1..Len(items) |-> items[i].id.videoId]}

\* list({item["id"]["videoId"] for item in results["items"]})
VideoIdLists(items) == ListsOfSet({items[i].id.videoId : i \in 1..Len(items)})

discover_videos(now, reply) ==
    /\ pc = "discover"
    /\ utcnow' = <<now>>
    /\ IF state.intent = <<>> \/ ~({"niche", "format"} \subseteq DOMAIN state.intent[1])
         THEN \* KeyError while the arguments are evaluated: no request is made
              /\ Raise("discover")
              /\ UNCHANGED <<calls, sent, mock>>
         ELSE /\ calls' = [calls EXCEPT !.search = @ + 1]
              /\ sent' = [sent EXCEPT !.search =
                            <<[part |-> "snippet",
                               q |-> state.intent[1]["niche"],
                               type |-> "video",
                               videoDuration |-> VideoDuration(state.intent[1]),
                               regionCode |-> RegionCode,
                               publishedAfter |-> PublishedAfter(now),
                               maxResults |-> MaxSearchResults]>>]
              /\ mock' = [mock EXCEPT !.search = <<reply>>]
              /\ IF reply.ok
                   THEN \E video_ids \in VideoIdLists(reply.items) :
                            Return("discover", "video_ids", video_ids)
                   ELSE Raise("discover")

\* NODE 3
fetch_video_stats(reply) ==
    /\ pc = "videos"
    /\ calls' = [calls EXCEPT !.videos = @ + 1]
    /\ sent' = [sent EXCEPT !.videos =
                  <<[part |-> "snippet,statistics,contentDetails",
                     id |-> Join(state.video_ids[1])]>>]
    /\ mock' = [mock EXCEPT !.videos = <<reply>>]
    /\ UNCHANGED utcnow
    /\ IF reply.ok
         THEN Return("videos", "videos", reply.items)
         ELSE Raise("videos")

\* NODE 4
\* list({v["snippet"]["channelId"] for v in state["videos"]})
ChannelIdLists(videos) == ListsOfSet({videos[i].snippet.channelId : i \in 1..Len(videos)})

\* The items put in the order of the requested ids.
RECURSIVE InOrderOf(_, _)
InOrderOf(ids, items) ==
    IF ids = <<>> THEN <<>>
    ELSE SelectSeq(items, LAMBDA it : it.id = Head(ids)) \o InOrderOf(Tail(ids), items)

fetch_channels_reordering(reply) ==
    /\ pc = "channels"
    /\ calls' = [calls EXCEPT !.channels = @ + 1]
    /\ mock' = [mock EXCEPT !.channels = <<reply>>]
    /\ UNCHANGED utcnow
    /\ \E channel_ids \in ChannelIdLists(state.videos[1]) :
          /\ sent' = [sent EXCEPT !.channels =
                        <<[part |-> "snippet,statistics", id |-> Join(channel_ids)]>>]
          /\ IF reply.ok
               THEN Return("channels", "channels", InOrderOf(channel_ids, reply.items))
               ELSE Raise("channels")

fetch_channels(reply) ==
    /\ pc = "channels"
    /\ calls' = [calls EXCEPT !.channels = @ + 1]
    /\ mock' = [mock EXCEPT !.channels = <<reply>>]
    /\ UNCHANGED utcnow
    /\ \E channel_ids \in ChannelIdLists(state.videos[1]) :
          /\ sent' = [sent EXCEPT !.channels =
                        <<[part |-> "snippet,statistics", id |-> Join(channel_ids)]>>]
          /\ IF reply.ok
               THEN Return("channels", "channels", reply.items)
               ELSE Raise("channels")

\* NODE 5
evaluate(text) ==
    /\ pc = "evaluate"
    /\ UNCHANGED <<sent, utcnow>>
    /\ IF state.intent = <<>> \/ "max_subscribers" \notin DOMAIN state.intent[1]
         THEN \* KeyError while the prompt is formatted: the model is not called
              /\ Raise("evaluate")
              /\ UNCHANGED <<calls, mock>>
         ELSE /\ calls' = [calls EXCEPT !.llm = @ + 1]
              /\ mock' = [mock EXCEPT !.evaluate = <<text>>]
              /\ LET parsed == JsonLoads(text)
                 IN IF parsed.ok
                      THEN Return("evaluate", "final_results", parsed.value)
                      ELSE Raise("evaluate")

\* ------------------------------------------------------------------ __main__
\* One iteration of the loop body: the four print calls, up to the first
\* missing key.
LinesOf(r) ==
    LET n == IF \E i \in 1..Len(ResultKeys) : ResultKeys[i] \notin DOMAIN r
               THEN (CHOOSE i \in 1..Len(ResultKeys) :
                        /\ ResultKeys[i] \notin DOMAIN r
                        /\ \A j \in 1..(i - 1) : ResultKeys[j] \in DOMAIN r) - 1
               ELSE Len(ResultKeys)
    IN [i \in 1..n |-> <<ResultKeys[i], r[ResultKeys[i]]>>]

\* for r in result["final_results"]: ...
RECURSIVE PrintLoop(_)
PrintLoop(results) ==
    IF results = <<>> THEN [out |-> <<>>, crashed |-> FALSE]
    ELSE LET lines == LinesOf(Head(results))
         IN IF Len(lines) < Len(ResultKeys)
              THEN [out |-> lines, crashed |-> TRUE]
              ELSE LET rest == PrintLoop(Tail(results))
                   IN [out |-> lines \o rest.out, crashed |-> rest.crashed]

PrintResults ==
    /\ pc = "END"
    /\ LET p == PrintLoop(state.final_results[1])
       IN /\ printed' = p.out
          /\ pc' = IF p.crashed THEN "aborted" ELSE "exit"
          /\ failed' = IF p.crashed THEN <<"__main__">> ELSE failed
    /\ UNCHANGED <<state, started, completed, calls, sent, mock, utcnow, run, prev>>

\* The compiled graph invoked once more, with the same query, against
\* collaborators that repeat their replies.
Rerun ==
    /\ pc \in {"exit", "aborted"}
    /\ run = 1
    /\ run' = run + 1
    /\ prev' = <<state>>
    /\ state' = InitialState
    /\ pc' = "intent"
    /\ started' = <<>>
    /\ completed' = <<>>
    /\ failed' = <<>>
    /\ printed' = <<>>
    /\ utcnow' = <<>>
    /\ UNCHANGED <<calls, sent, mock>>

Next ==
    \/ \E text \in Replies("intent", IntentTexts) : parse_intent(text)
    \/ \E now \in Clocks, reply \in Replies("search", SearchReplies) : discover_videos(now, reply)
    \/ \E reply \in Replies("videos", VideoReplies) : fetch_video_stats(reply)
    \/ \E reply \in Replies("channels", ChannelReplies) : fetch_channels(reply)
    \/ \E text \in Replies("evaluate", EvalTexts) : evaluate(text)
    \/ PrintResults

Spec == Init /\ [][Next]_vars

NextTwice == Next \/ Rerun

SpecTwice == Init /\ [][NextTwice]_vars

\* ================================================================ properties
IsPrefix(s, t) == Len(s) <= Len(t) /\ \A i \in 1..Len(s) : s[i] = t[i]
IndexOf(node) == CHOOSE i \in 1..Len(Nodes) : Nodes[i] = node
Split(joined) == SelectSeq(joined, LAMBDA t : t # ",")
Fields == {"intent", "video_ids", "videos", "channels", "final_results"}
Writer(f) ==
    CASE f = "intent" -> "intent"
      [] f = "video_ids" -> "discover"
      [] f = "videos" -> "videos"
      [] f = "channels" -> "channels"
      [] f = "final_results" -> "evaluate"

\* C1: the nodes run in the order intent, discover, videos, channels,
\* evaluate: the nodes entered so far are a prefix of that order (none twice,
\* none skipped), a node is entered only when every node before it has
\* returned, and once evaluate has returned no node runs again.
C1_StageOrder ==
    /\ IsPrefix(started, Nodes)
    /\ IsPrefix(completed, started)
    /\ Len(started) - Len(completed) <= 1
    /\ (Len(completed) < Len(started) => pc = "aborted")
    /\ (pc \in NodeSet => completed = started /\ pc = Nodes[Len(started) + 1])
    /\ (pc \in {"END", "exit"} => completed = Nodes)

C1_Witness == pc = "exit" /\ started = Nodes /\ completed = Nodes

\* C2: a step changes a field of the state only if the field was unset and
\* the step is the field's own node; query never changes; a field is set
\* exactly when its node has returned, and no node has run twice.
C2_WriteOnce ==
    /\ [][/\ state'.query = state.query
          /\ \A f \in Fields :
                state'[f] # state[f] =>
                    /\ state[f] = <<>>
                    /\ Len(state'[f]) = 1
                    /\ pc = Writer(f)]_vars
    /\ [](\A f \in Fields :
            /\ (state[f] # <<>>) <=> (Writer(f) \in Range(completed))
            /\ Count(Writer(f), started) <= 1)

C2_Witness == pc = "END" /\ \A f \in Fields : Len(state[f]) = 1

\* C3: when fetch_video_stats has run with an empty video_ids, videos is the
\* empty sequence and videos().list was never called.
C3_NoCallOnEmptyIds ==
    ("videos" \in Range(started) /\ state.video_ids = << <<>> >>) =>
        /\ calls.videos = 0
        /\ state.videos = << <<>> >>

\* C4: when fetch_channels has run with an empty videos, channels is the
\* empty sequence and channels().list was never called.
C4_NoCallOnEmptyVideos ==
    ("channels" \in Range(started) /\ state.videos = << <<>> >>) =>
        /\ calls.channels = 0
        /\ state.channels = << <<>> >>

\* C5: video_ids holds every distinct id of the search reply exactly once,
\* and the id list sent to channels().list holds every distinct channelId of
\* videos exactly once.
C5_Deduplicated ==
    /\ state.video_ids # <<>> =>
          LET ids == state.video_ids[1]
              items == mock.search[1].items
              distinct == {items[i].id.videoId : i \in 1..Len(items)}
          IN /\ Range(ids) = distinct
             /\ \A v \in distinct : Count(v, ids) = 1
             /\ Len(ids) = Cardinality(distinct)
    /\ sent.channels # <<>> =>
          LET ids == Split(sent.channels[1].id)
              videos == state.videos[1]
              distinct == {videos[i].snippet.channelId : i \in 1..Len(videos)}
          IN /\ Range(ids) = distinct
             /\ \A c \in distinct : Count(c, ids) = 1
             /\ Len(ids) = Cardinality(distinct)

C5_Witness ==
    /\ state.video_ids # <<>> /\ sent.channels # <<>>
    /\ Len(mock.search[1].items) > Len(state.video_ids[1])
    /\ Len(state.video_ids[1]) = 2
    /\ Len(state.videos[1]) > Len(Split(sent.channels[1].id))

\* C6: once the intent reply has been received, intent is unset and the node
\* did not return if the reply is not JSON or lacks one of the five fields,
\* and intent is the parsed object otherwise.
C6_MalformedRejected ==
    mock.intent # <<>> =>
        LET parsed == JsonLoads(mock.intent[1])
        IN IF parsed.ok /\ AllFields \subseteq DOMAIN parsed.value
             THEN state.intent = <<parsed.value>>
             ELSE state.intent = <<>> /\ "intent" \notin Range(completed)

\* C7: when a node has raised, the run is over at that node: it is the last
\* node entered and was entered once, no operation of a later node was
\* called, no call was repeated, final_results is unset and nothing is printed.
C7_AbortOnFailure ==
    (failed # <<>> /\ failed[1] \in NodeSet) =>
        LET k == IndexOf(failed[1])
        IN /\ pc = "aborted"
           /\ started = SubSeq(Nodes, 1, k)
           /\ completed = SubSeq(Nodes, 1, k - 1)
           /\ state.final_results = <<>>
           /\ printed = <<>>
           /\ (k < 2 => calls.search = 0)
           /\ (k < 3 => calls.videos = 0)
           /\ (k < 4 => calls.channels = 0)
           /\ (k < 5 => calls.llm <= 1)
           /\ calls.search <= 1 /\ calls.videos <= 1 /\ calls.channels <= 1 /\ calls.llm <= 2

C7_Witness == failed = <<"videos">> /\ pc = "aborted" /\ calls.videos = 1

\* C8 as stated: for format short-form or long-form, the filter sent is
\* "short" exactly when format is short-form, and "any" otherwise.
C8_ShortFormFilter ==
    (sent.search # <<>> /\ state.intent[1]["format"] \in {"short-form", "long-form"}) =>
        /\ (sent.search[1].videoDuration = "short") <=> (state.intent[1]["format"] = "short-form")
        /\ (sent.search[1].videoDuration = "any") <=> (state.intent[1]["format"] # "short-form")

\* C8 (amended): the filter sent is "short" exactly when intent.format is the
\* string "shorts", and "any" for every other value.
C8_ShortsFilter ==
    sent.search # <<>> =>
        /\ (state.intent[1]["format"] = "shorts" => sent.search[1].videoDuration = "short")
        /\ (state.intent[1]["format"] # "shorts" => sent.search[1].videoDuration = "any")

C8_Witness ==
    /\ sent.search # <<>>
    /\ state.intent[1]["format"] = "shorts"
    /\ sent.search[1].videoDuration = "short"

RunEnded == run > 1 /\ pc \in {"exit", "aborted"}

\* C9 as stated: a second invocation that received the same replies and ran
\* to the end has every field, video_ids included, equal to the first
\* invocation's.
C9_Identical == (run > 1 /\ pc = "exit") => state = prev[1]

\* C9 (amended): a second invocation that received the same replies ends
\* with the same query, intent, videos, channels and final_results, and with
\* a video_ids list holding the same ids, possibly in another order.
C9_IdenticalUpToOrder ==
    RunEnded =>
        /\ \A f \in {"query", "intent", "videos", "channels", "final_results"} :
              state[f] = prev[1][f]
        /\ Len(state.video_ids) = Len(prev[1].video_ids)
        /\ state.video_ids # <<>> =>
              /\ Range(state.video_ids[1]) = Range(prev[1].video_ids[1])
              /\ Len(state.video_ids[1]) = Len(prev[1].video_ids[1])

C9_Witness ==
    /\ RunEnded /\ pc = "exit"
    /\ state.video_ids # prev[1].video_ids
    /\ state.final_results = prev[1].final_results
    /\ Len(state.final_results[1]) > 0

WindowSeconds == WindowDays * DaySeconds
TotalSeconds(d) == d.days * DaySeconds + d.seconds

\* C10 as stated: publishedAfter is the clock value 2,592,000 seconds
\* earlier, written with no sub-second part.
C10_SecondPrecision ==
    sent.search # <<>> =>
        LET pa == sent.search[1].publishedAfter
        IN /\ Len(pa) = 4
           /\ pa[1] * DaySeconds + pa[3] = TotalSeconds(utcnow[1]) - WindowSeconds
           /\ pa[4] = "Z"

\* C10 (amended): publishedAfter is the clock value 2,592,000 seconds
\* earlier; it has no sub-second part when the clock's microsecond is zero
\* and carries the clock's microsecond otherwise.
C10_ExactWindow ==
    sent.search # <<>> =>
        LET pa == sent.search[1].publishedAfter
            now == utcnow[1]
        IN /\ pa[1] * DaySeconds + pa[3] = TotalSeconds(now) - WindowSeconds
           /\ pa[2] = "T"
           /\ Last(pa) = "Z"
           /\ (now.microsecond = 0 => Len(pa) = 4)
           /\ (now.microsecond # 0 => Len(pa) = 6 /\ pa[4] = "." /\ pa[5] = now.microsecond)

C10_Witness ==
    /\ sent.search # <<>>
    /\ utcnow[1].microsecond # 0
    /\ Len(sent.search[1].publishedAfter) = 6
====
